---- MODULE Spec2Model ----
(***************************************************************************)
(* json-entity (src/index.js): the Entity class.  An Entity owns an        *)
(* ordered list of exposure rules (`properties`).  The constructor,        *)
(* `expose` and `extend` compile declarations into rules; `represent`      *)
(* projects a record (or an array of records) through the rules.           *)
(*                                                                         *)
(* JavaScript values are tagged records: k is the type and the payload     *)
(* sits in a field named after the type, so that values of different       *)
(* types are never compared payload to payload.  An object's payload is a  *)
(* function from its own keys to values; a key that is absent reads as     *)
(* undefined.  A rule record is such a function.                           *)
(***************************************************************************)
EXTENDS Integers, Sequences, FiniteSets, TLC

VARIABLES entities, last

vars == <<entities, last>>

(***************************************************************************)
(* Bounds of the model.                                                    *)
(***************************************************************************)
MaxEntities == 2
MaxRules == 2
MaxDepth == 4

(***************************************************************************)
(* JavaScript values.                                                      *)
(***************************************************************************)
Undefined == [k |-> "undefined"]
Null == [k |-> "null"]
Bool(b) == [k |-> "boolean", b |-> b]
Num(n) == [k |-> "number", n |-> n]
Str(s) == [k |-> "string", s |-> s]
Arr(a) == [k |-> "array", a |-> a]
Obj(o) == [k |-> "object", o |-> o]
Fn(name) == [k |-> "function", f |-> name]
Ent(id) == [k |-> "entity", e |-> id]

\* The empty object {} and the empty own-key map.
NoKeys == [f \in {} |-> Undefined]
EmptyObj == Obj(NoKeys)

\* A completed call: a returned value, or a thrown error.
Return(v) == [ok |-> TRUE, v |-> v]
Throw(name, message) == [ok |-> FALSE, name |-> name, message |-> message]

\* An error message: a fixed text with one interpolated value (Undefined when none).
Message(prefix, text, arg) == [prefix |-> prefix, text |-> text, arg |-> arg]

\* const error = err => `json-entity: ${err}`
error(text, arg) == Message("json-entity: ", text, arg)

\* The engine's TypeError on reading a property of undefined or null.
CannotRead(x, f) == Throw("TypeError", Message("", "Cannot read property of", Str(f)))

\* ToBoolean: the falsy values are undefined, null, false, 0 and "".
Truthy(x) ==
  /\ x.k \notin {"undefined", "null"}
  /\ (x.k = "boolean" => x.b)
  /\ (x.k = "number" => x.n # 0)
  /\ (x.k = "string" => x.s # "")

\* The typeof operator.
TypeOf(x) ==
  IF x.k \in {"undefined", "boolean", "number", "string", "function"} THEN x.k ELSE "object"

isArray(x) == x.k = "array"
isFunction(x) == x.k = "function"
\* lodash isObject: a non-null value whose typeof is object or function.
isObject(x) == x.k \in {"object", "array", "function", "entity"}
isEntity(x) == x.k = "entity"

\* Reading o[f] on an own-key map; an absent key reads as undefined.
Get(o, f) == IF f \in DOMAIN o THEN o[f] ELSE Undefined
\* The assignment o[f] = v on an own-key map.
Put(o, f, v) == [x \in DOMAIN o \cup {f} |-> IF x = f THEN v ELSE o[x]]
\* The own-key map without key f.
Without(o, f) == [x \in DOMAIN o \ {f} |-> o[x]]

\* ToPropertyKey: the string under which a value is used as a property name.
PropertyKey(x) ==
  CASE x.k = "string" -> x.s
    [] x.k = "number" -> ToString(x.n)
    [] x.k = "boolean" -> IF x.b THEN "true" ELSE "false"
    [] OTHER -> x.k

\* The rule list of entity id as the array that Entity.properties holds.
PropertiesValue(ents, id) == Arr([i \in 1..Len(ents[id]) |-> Obj(ents[id][i])])

\* The own enumerable keys of a non-null value, as an own-key map (Object.keys
\* and the reads val[key]).  An Entity instance owns the single key `properties`.
OwnProps(ents, x) ==
  CASE x.k = "object" -> x.o
    [] x.k = "entity" -> [f \in {"properties"} |-> PropertiesValue(ents, x.e)]
    [] OTHER -> NoKeys

\* The property read x[f] on a non-null value.
GetProp(ents, x, f) == Get(OwnProps(ents, x), f)

\* lodash pick(object, keys): the listed own keys of object, into a new object.
pick(ents, object, keys) ==
  LET o == IF object.k \in {"undefined", "null"} THEN NoKeys ELSE OwnProps(ents, object)
  IN  [f \in DOMAIN o \cap keys |-> o[f]]

ValidOptions == {"as", "default", "if", "merge", "using", "value"}

(***************************************************************************)
(* expose(property, options = {}) on the rule list props: the list with    *)
(* the new rule pushed at its end, or the assertion that failed.           *)
(***************************************************************************)
\* A push that inserts at the front (unshift).
push_front(props, rule) == <<rule>> \o props

\* this.properties.push(rule)
push(props, rule) == Append(props, rule)

\* if (opts.if) assert(isFunction(opts.if), ...); if (opts.using) assert(isEntity(opts.using), ...)
ValidateOptions(opts) ==
  IF Truthy(Get(opts, "if")) /\ ~isFunction(Get(opts, "if"))
  THEN Throw("AssertionError", error("\"if\" must be a function!", Undefined))
  ELSE IF Truthy(Get(opts, "using")) /\ ~isEntity(Get(opts, "using"))
  THEN Throw("AssertionError", error("\"using\" must be an Entity!", Undefined))
  ELSE Return(opts)

\* if (opts.value !== undefined) opts.mode = isFunction(opts.value) ? 'fn' : 'val'
SetMode(opts) ==
  IF Get(opts, "value") # Undefined
  THEN Put(opts, "mode", IF isFunction(Get(opts, "value")) THEN Str("fn") ELSE Str("val"))
  ELSE opts

\* Object.assign(opts, { as: opts.as || property, key: property })
AssignAsKey(opts, property) ==
  Put(Put(opts, "as", IF Truthy(Get(opts, "as")) THEN Get(opts, "as") ELSE property),
      "key", property)

expose(ents, props, property, options) ==
  LET opts == pick(ents, IF options = Undefined THEN EmptyObj ELSE options, ValidOptions)
      valid == ValidateOptions(opts)
  IN  IF ~valid.ok THEN valid
      ELSE Return(push(props, AssignAsKey(SetMode(opts), property)))

(***************************************************************************)
(* The constructor.  A definition is the sequence of its [key, opts]       *)
(* entries in Object.keys order; the entries of an array are its elements  *)
(* under their indexes "0", "1", ...                                       *)
(***************************************************************************)
\* Object.keys(definition) and definition[key] for an array of rule records.
ArrayEntries(props) ==
  [i \in 1..Len(props) |-> [key |-> ToString(i - 1), opts |-> Obj(props[i])]]

\* The body of the inner forEach: one key of one definition.
DefineKey(ents, props, key, opts) ==
  IF opts.k \in {"undefined", "null"} THEN CannotRead(opts, "key")
  ELSE
    LET optsKey == GetProp(ents, opts, "key")
        property == IF Truthy(optsKey) THEN optsKey ELSE Str(key)
    IN  CASE TypeOf(opts) = "boolean" ->
               IF opts = Bool(TRUE) THEN expose(ents, props, property, Undefined)
               ELSE Return(props)
          [] TypeOf(opts) = "function" ->
               expose(ents, props, property, Obj([value |-> opts]))
          [] TypeOf(opts) = "object" ->
               expose(ents, props, property, opts)
          [] OTHER ->
               Throw("TypeError", error("unknown options type for property ", property))

\* Object.keys(definition).forEach(...): the entries from index i on; the first
\* throw ends the loop.
RECURSIVE DefineEntries(_, _, _, _)
DefineEntries(ents, props, entries, i) ==
  IF i > Len(entries) THEN Return(props)
  ELSE LET r == DefineKey(ents, props, entries[i].key, entries[i].opts)
       IN  IF ~r.ok THEN r ELSE DefineEntries(ents, r.v, entries, i + 1)

\* entityDefinitions.forEach(...): the definitions from index i on.
RECURSIVE DefineAll(_, _, _, _)
DefineAll(ents, props, definitions, i) ==
  IF i > Len(definitions) THEN Return(props)
  ELSE LET r == DefineEntries(ents, props, definitions[i], 1)
       IN  IF ~r.ok THEN r ELSE DefineAll(ents, r.v, definitions, i + 1)

\* new Entity(...entityDefinitions): this.properties = [] and the loops.
constructor(ents, definitions) == DefineAll(ents, <<>>, definitions, 1)

\* extend(...entityDefinitions): new Entity(this.properties, ...entityDefinitions)
extend(ents, id, definitions) ==
  constructor(ents, <<ArrayEntries(ents[id])>> \o definitions)

(***************************************************************************)
(* The callables that declarations carry (`if` predicates and `value`      *)
(* functions), called with (data, options).                                *)
(***************************************************************************)
Call(ents, fn, data, options) ==
  CASE fn.f = "isFull" ->
         \* (user, opts) => opts.output === 'full'
         Return(Bool(GetProp(ents, options, "output") = Str("full")))
    [] fn.f = "name" ->
         \* name(obj) { return obj.name; }
         IF data.k \in {"undefined", "null"} THEN CannotRead(data, "name")
         ELSE Return(GetProp(ents, data, "name"))
    [] OTHER ->
         \* sinon.stub().returns(true)
         Return(Bool(TRUE))

(***************************************************************************)
(* represent(data, options = {}).                                          *)
(***************************************************************************)
\* The call stack is finite: a call nested deeper than MaxDepth ends in the
\* engine's RangeError.
StackOverflow == Throw("RangeError", Message("", "Maximum call stack size exceeded", Undefined))

\* A guard that is never consulted.
GuardSkips_ignored(ents, opts, data, options) == Return(FALSE)

\* if (opts.if && !opts.if(data, options)) return result: whether the rule is
\* skipped, or what the predicate threw.
GuardSkips(ents, opts, data, options) ==
  IF ~Truthy(Get(opts, "if")) THEN Return(FALSE)
  ELSE LET r == Call(ents, Get(opts, "if"), data, options)
       IN  IF ~r.ok THEN r ELSE Return(~Truthy(r.v))

\* switch (opts.mode): the value of the rule before defaulting.
ResolveValue(ents, opts, data, options) ==
  CASE Get(opts, "mode") = Str("fn") -> Call(ents, Get(opts, "value"), data, options)
    [] Get(opts, "mode") = Str("val") -> Return(Get(opts, "value"))
    [] OTHER ->
         IF data.k \in {"undefined", "null"}
         THEN CannotRead(data, PropertyKey(Get(opts, "key")))
         ELSE Return(GetProp(ents, data, PropertyKey(Get(opts, "key"))))

\* Whether val === undefined is left after defaulting (the rule is skipped).
IsSkipped(opts, val) == val = Undefined /\ Get(opts, "default") = Undefined

\* A default taken for every falsy value (val || opts.default).
ApplyDefault_falsy(opts, val) ==
  IF ~Truthy(val) /\ Get(opts, "default") # Undefined THEN Get(opts, "default") ELSE val

\* if (val === undefined) { if (opts.default !== undefined) val = opts.default; ... }
ApplyDefault(opts, val) == IF val = Undefined THEN Get(opts, "default") ELSE val

\* A merge that puts the new elements first.
MergeArray_prepend(result, as, val) ==
  LET existing == Get(result, as)
  IN  IF ~(existing = Undefined \/ isArray(existing))
      THEN Throw("AssertionError",
                 error("attempting to merge array with non-array for property ", Str(as)))
      ELSE Return(Put(result, as,
                      Arr(val.a \o (IF Truthy(existing) THEN existing.a ELSE <<>>))))

\* The placement without the assertion: an array replaces a non-array.
Place_unchecked(ents, result, opts, val) ==
  IF Truthy(Get(opts, "merge")) /\ isArray(val)
  THEN LET existing == Get(result, PropertyKey(Get(opts, "as")))
       IN  Return(Put(result, PropertyKey(Get(opts, "as")),
                      Arr((IF isArray(existing) THEN existing.a ELSE <<>>) \o val.a)))
  ELSE IF Truthy(Get(opts, "merge"))
  THEN Return(IF isObject(val)
              THEN [x \in DOMAIN result \cup DOMAIN OwnProps(ents, val) |->
                      IF x \in DOMAIN OwnProps(ents, val) THEN OwnProps(ents, val)[x] ELSE result[x]]
              ELSE result)
  ELSE Return(Put(result, PropertyKey(Get(opts, "as")), val))

\* result[opts.as] = [...(result[opts.as] || []), ...val], after the assertion.
MergeArray(result, as, val) ==
  LET existing == Get(result, as)
  IN  IF ~(existing = Undefined \/ isArray(existing))
      THEN Throw("AssertionError",
                 error("attempting to merge array with non-array for property ", Str(as)))
      ELSE Return(Put(result, as,
                      Arr((IF Truthy(existing) THEN existing.a ELSE <<>>) \o val.a)))

\* Object.keys(val).forEach((key) => { result[key] = val[key]; })
MergeObject(ents, result, val) ==
  LET own == OwnProps(ents, val)
  IN  [x \in DOMAIN result \cup DOMAIN own |-> IF x \in DOMAIN own THEN own[x] ELSE result[x]]

\* The placement of val (lines 165-181).
Place(ents, result, opts, val) ==
  IF Truthy(Get(opts, "merge"))
  THEN IF isArray(val) THEN MergeArray(result, PropertyKey(Get(opts, "as")), val)
       ELSE IF isObject(val) THEN Return(MergeObject(ents, result, val))
       ELSE Return(result)
  ELSE Return(Put(result, PropertyKey(Get(opts, "as")), val))

RECURSIVE represent(_, _, _, _, _)

\* A reduce callback whose nested projection is given a fresh options object.
ReduceStep_fresh_options(ents, result, opts, data, options, depth) ==
  LET skip == GuardSkips(ents, opts, data, options)
  IN  IF ~skip.ok THEN skip
      ELSE IF skip.v THEN Return(result)
      ELSE
        LET raw == ResolveValue(ents, opts, data, options)
        IN  IF ~raw.ok THEN raw
            ELSE IF IsSkipped(opts, raw.v) THEN Return(result)
            ELSE
              LET val == ApplyDefault(opts, raw.v)
                  used == IF Truthy(Get(opts, "using"))
                          THEN represent(ents, Get(opts, "using").e, val, EmptyObj, depth - 1)
                          ELSE Return(val)
              IN  IF ~used.ok THEN used
                  ELSE Place(ents, result, opts, used.v)

\* The reduce callback: rule opts applied to the result so far.
ReduceStep(ents, result, opts, data, options, depth) ==
  LET skip == GuardSkips(ents, opts, data, options)
  IN  IF ~skip.ok THEN skip
      ELSE IF skip.v THEN Return(result)
      ELSE
        LET raw == ResolveValue(ents, opts, data, options)
        IN  IF ~raw.ok THEN raw
            ELSE IF IsSkipped(opts, raw.v) THEN Return(result)
            ELSE
              LET val == ApplyDefault(opts, raw.v)
                  used == IF Truthy(Get(opts, "using"))
                          THEN represent(ents, Get(opts, "using").e, val, options, depth - 1)
                          ELSE Return(val)
              IN  IF ~used.ok THEN used
                  ELSE Place(ents, result, opts, used.v)

\* this.properties.reduce(..., {}) from rule i on.
RECURSIVE Reduce(_, _, _, _, _, _, _)
Reduce(ents, props, i, result, data, options, depth) ==
  IF i > Len(props) THEN Return(Obj(result))
  ELSE LET r == ReduceStep(ents, result, props[i], data, options, depth)
       IN  IF ~r.ok THEN r ELSE Reduce(ents, props, i + 1, r.v, data, options, depth)

\* data.map(entity => this.represent(entity, options)) from element i on.
RECURSIVE MapRepresent(_, _, _, _, _, _, _)
MapRepresent(ents, id, items, i, done, options, depth) ==
  IF i > Len(items) THEN Return(Arr(done))
  ELSE LET r == represent(ents, id, items[i], options, depth - 1)
       IN  IF ~r.ok THEN r
           ELSE MapRepresent(ents, id, items, i + 1, Append(done, r.v), options, depth)

\* A representation that starts from a copy of the data instead of {}.
represent_copy(ents, id, data, options, depth) ==
  LET opts == IF options = Undefined THEN EmptyObj ELSE options
  IN  IF depth <= 0 THEN StackOverflow
      ELSE IF isArray(data) THEN MapRepresent(ents, id, data.a, 1, <<>>, opts, depth)
      ELSE Reduce(ents, ents[id], 1, OwnProps(ents, data), data, opts, depth)

represent(ents, id, data, options, depth) ==
  LET opts == IF options = Undefined THEN EmptyObj ELSE options
  IN  IF depth <= 0 THEN StackOverflow
      ELSE IF isArray(data) THEN MapRepresent(ents, id, data.a, 1, <<>>, opts, depth)
      ELSE Reduce(ents, ents[id], 1, NoKeys, data, opts, depth)

(***************************************************************************)
(* The state: the rule list of every entity constructed so far (entity id  *)
(* = position), and the last call with its arguments and its outcome.      *)
(***************************************************************************)
CallRecord(op, id, arg, options, out) ==
  [op |-> op, id |-> id, arg |-> arg, options |-> options, out |-> out]

Init ==
  /\ entities = <<>>
  /\ last = CallRecord("none", 0, Undefined, Undefined, Return(Undefined))

\* The ids of the entities that exist.
Ids == 1..Len(entities)

\* Whether every entity that value x refers to exists.
RefsExist(x) ==
  /\ (x.k = "entity" => x.e \in Ids)
  /\ (x.k = "object" => \A f \in DOMAIN x.o : x.o[f].k = "entity" => x.o[f].e \in Ids)

\* The number of rules over all entities.
RECURSIVE TotalRules(_)
TotalRules(ents) == IF ents = <<>> THEN 0 ELSE Len(Head(ents)) + TotalRules(Tail(ents))

\* new Entity(...definitions): the new entity takes the next id.
New(definitions) ==
  LET r == constructor(entities, definitions)
  IN  /\ Len(entities) < MaxEntities
      /\ entities' = IF r.ok THEN Append(entities, r.v) ELSE entities
      /\ last' = CallRecord("new", 0, definitions, Undefined,
                            IF r.ok THEN Return(Ent(Len(entities) + 1)) ELSE r)

\* entities[id].expose(property, options)
Expose(id, property, options) ==
  LET r == expose(entities, entities[id], property, options)
  IN  /\ entities' = IF r.ok THEN [entities EXCEPT ![id] = r.v] ELSE entities
      /\ last' = CallRecord("expose", id, property, options,
                            IF r.ok THEN Return(Undefined) ELSE r)

\* An extend that compiles into the receiver and returns it.
Extend_in_place(id, definitions) ==
  LET r == extend(entities, id, definitions)
  IN  /\ Len(entities) < MaxEntities
      /\ entities' = IF r.ok THEN [entities EXCEPT ![id] = r.v] ELSE entities
      /\ last' = CallRecord("extend", id, definitions, Undefined,
                            IF r.ok THEN Return(Ent(id)) ELSE r)

\* entities[id].extend(...definitions): the new entity takes the next id.
Extend(id, definitions) ==
  LET r == extend(entities, id, definitions)
  IN  /\ Len(entities) < MaxEntities
      /\ entities' = IF r.ok THEN Append(entities, r.v) ELSE entities
      /\ last' = CallRecord("extend", id, definitions, Undefined,
                            IF r.ok THEN Return(Ent(Len(entities) + 1)) ELSE r)

\* entities[id].represent(data, options)
Represent(id, data, options) ==
  /\ entities' = entities
  /\ last' = CallRecord("represent", id, data, options,
                        represent(entities, id, data, options, MaxDepth))

(***************************************************************************)
(* The compile-side specification: declarations of every shape.            *)
(***************************************************************************)
\* Every option at once, with an extraneous key (src/test/index.js:98).
AllOptions ==
  Obj([as |-> Str("id"), default |-> Null, if |-> Fn("stub"), merge |-> Bool(TRUE),
       using |-> Ent(1), value |-> Null, other |-> Str("something")])

ObjectDeclarations ==
  {AllOptions, Obj([if |-> Bool(TRUE)]), Obj([if |-> Num(0)]), Obj([using |-> EmptyObj])}

DeclaredValues ==
  {Bool(TRUE), Bool(FALSE), Fn("name"), Str("string"), Undefined, Null} \cup ObjectDeclarations

OneEntry ==
  {<<[key |-> "id", opts |-> v]>> : v \in DeclaredValues} \cup {<<[key |-> "", opts |-> Bool(TRUE)]>>}

TwoEntries ==
  { <<[key |-> "id", opts |-> v], [key |-> "", opts |-> w]>> :
      v \in {Bool(TRUE)}, w \in {Fn("name"), Undefined} }

DefinitionLists == {<<>>} \cup {<<d>> : d \in OneEntry \cup TwoEntries}

ExtendLists ==
  {<<>>} \cup {<<<<[key |-> "id", opts |-> v]>>>> : v \in {Bool(TRUE), Str("string")}}

Records == {Obj([id |-> Num(1), name |-> Str("Josh")])}

ExposeCalls ==
  {<<"id", o>> : o \in {Undefined} \cup ObjectDeclarations} \cup {<<"", Undefined>>}

DefsExist(definitions) ==
  \A i \in 1..Len(definitions) : \A j \in 1..Len(definitions[i]) :
    RefsExist(definitions[i][j].opts)

\* The bounds on the heap: MaxEntities entities (in New and Extend), MaxRules rules.
Bounded == TotalRules(entities') <= MaxRules

Next ==
  \/ \E ds \in DefinitionLists : DefsExist(ds) /\ New(ds) /\ Bounded
  \/ \E id \in Ids, c \in ExposeCalls :
       RefsExist(c[2]) /\ Expose(id, Str(c[1]), c[2]) /\ Bounded
  \/ \E id \in Ids, ds \in ExtendLists : DefsExist(ds) /\ Extend(id, ds) /\ Bounded
  \/ \E id \in Ids, data \in Records : Represent(id, data, Undefined)

Spec == Init /\ [][Next]_vars

(***************************************************************************)
(* The projection-side specification: entity 1 is Location ({city: true,   *)
(* region: true}), entity 2 is User, constructed empty; rules are exposed  *)
(* on User and User represents records.                                    *)
(***************************************************************************)
MaxExposed == 2

Location == 1
User == 2

LocationDefinition ==
  <<[key |-> "city", opts |-> Bool(TRUE)], [key |-> "region", opts |-> Bool(TRUE)]>>

InitProject ==
  /\ entities = <<constructor(<<>>, <<LocationDefinition>>).v, constructor(<<>>, <<>>).v>>
  /\ last = CallRecord("none", 0, Undefined, Undefined, Return(Undefined))

Full == Obj([output |-> Str("full")])
Guest == Arr(<<Str("guest")>>)
SanFrancisco == Obj([city |-> Str("San Francisco"), region |-> Str("CA"), country |-> Str("US")])

ProjectExposeCalls ==
  { <<"roles", Undefined>>,
    <<"roles", Obj([merge |-> Bool(TRUE)])>>,
    <<"scopes", Obj([as |-> Str("roles"), merge |-> Bool(TRUE)])>>,
    <<"roles", Obj([if |-> Fn("isFull"), default |-> Bool(FALSE)])>>,
    <<"roles", Obj([if |-> Fn("isFull"), value |-> Null, default |-> Bool(FALSE)])>>,
    <<"name", Obj([as |-> Str("roles"), if |-> Fn("isFull"), value |-> Fn("name"),
                   default |-> Guest, merge |-> Bool(TRUE)])>>,
    <<"location", Obj([merge |-> Bool(TRUE)])>>,
    <<"location", Obj([using |-> Ent(Location), default |-> SanFrancisco])>>,
    <<"location", Obj([if |-> Fn("isFull"), merge |-> Bool(TRUE), using |-> Ent(Location)])>>,
    <<"location", Obj([using |-> Ent(User)])>>,
    <<"location", Obj([using |-> Ent(User), default |-> EmptyObj])>> }

Josh ==
  Obj([roles |-> Arr(<<Str("admin")>>), scopes |-> Arr(<<Str("user")>>),
       location |-> SanFrancisco, name |-> Arr(<<Str("dev")>>)])

ProjectRecords ==
  { EmptyObj,
    Josh,
    Obj([roles |-> Null]),
    Obj([roles |-> Num(0), name |-> Str("Josh")]),
    Obj([roles |-> Str(""), scopes |-> Arr(<<Str("user")>>)]),
    Obj([roles |-> Bool(FALSE), location |-> Str("San Francisco")]),
    Obj([roles |-> Str("admin"), scopes |-> Arr(<<Str("user")>>)]),
    Obj([roles |-> Arr(<<Str("admin")>>), location |-> Obj([roles |-> Str("user")])]),
    Obj([roles |-> Arr(<<Str("admin")>>),
         location |-> Obj([roles |-> Arr(<<Str("user")>>), location |-> SanFrancisco])]) }

ProjectCalls ==
  {<<d, o>> : d \in ProjectRecords, o \in {Undefined, Full}}
    \cup {<<Arr(<<Josh, EmptyObj>>), Undefined>>}

NextProject ==
  \/ \E c \in ProjectExposeCalls :
       Expose(User, Str(c[1]), c[2]) /\ Len(entities'[User]) <= MaxExposed
  \/ \E c \in ProjectCalls : Represent(User, c[1], c[2])

SpecProject == InitProject /\ [][NextProject]_vars

(***************************************************************************)
(* Properties of the rule lists.                                           *)
(***************************************************************************)
IsPrefix(s, t) == Len(s) <= Len(t) /\ SubSeq(t, 1, Len(s)) = s

\* One step leaves every rule list a prefix of itself, by the call that was made.
C3_Step ==
  /\ \A id \in Ids : id <= Len(entities') /\ IsPrefix(entities[id], entities'[id])
  /\ (last'.op = "expose" /\ last'.out.ok) =>
       /\ Len(entities'[last'.id]) = Len(entities[last'.id]) + 1
       /\ SubSeq(entities'[last'.id], 1, Len(entities[last'.id])) = entities[last'.id]
  /\ (last'.op = "expose" /\ ~last'.out.ok) => entities' = entities
  /\ last'.op = "represent" => entities' = entities
  /\ last'.op = "extend" => entities'[last'.id] = entities[last'.id]

\* C3: over construction, expose, extend and represent calls (failing calls
\* included) every rule list only grows at its end: the list before a step is a
\* prefix of the list after it; a successful expose appends exactly one rule;
\* represent, extend (on the receiver) and a failed expose append none.
C3_AppendOnly == [][C3_Step]_vars

\* A successful expose on an entity that already had a rule.
C3_Witness ==
  /\ last.op = "expose" /\ last.out.ok
  /\ Len(entities[last.id]) >= 2
  /\ entities[last.id][1] # entities[last.id][2]

\* One step changes no rule list but that of the receiver of an expose.
C4_Step ==
  /\ last'.op = "extend" =>
       /\ \A id \in Ids : id <= Len(entities') /\ entities'[id] = entities[id]
       /\ last'.out.ok =>
            /\ isEntity(last'.out.v)
            /\ last'.out.v.e \notin Ids
            /\ last'.out.v.e \in 1..Len(entities')
       /\ ~last'.out.ok => entities' = entities
  /\ last'.op = "expose" =>
       \A id \in Ids \ {last'.id} : entities'[id] = entities[id]

\* C4: after B = A.extend(...), succeeded or failed, the rule list of A (and of
\* every other existing entity) is what it was; B is a new entity with a list of
\* its own, and an expose changes the list of its receiver only.
C4_ExtendNonMutation == [][C4_Step]_vars

\* An extend of an entity that has a rule returned a new entity.
C4_Witness ==
  /\ last.op = "extend" /\ last.out.ok
  /\ Len(entities[last.id]) >= 1
  /\ last.out.v.e # last.id

\* C5: the rule list of A.extend(declarations...) is A's rules, each with the
\* same key, as, mode, value, default, if, merge and using, followed by the rules
\* compiled from the declarations.
C5_ExtendComposition ==
  (last.op = "extend" /\ last.out.ok) =>
    LET own == constructor(entities, last.arg)
    IN  /\ own.ok
        /\ entities[last.out.v.e] = entities[last.id] \o own.v

\* The options carry an `if` that is not callable or a `using` that is not an Entity.
C6_FailsOn(options) ==
  /\ options.k = "object"
  /\ \/ "if" \in DOMAIN options.o /\ ~isFunction(options.o["if"])
     \/ "using" \in DOMAIN options.o /\ ~isEntity(options.o["using"])

\* C6: expose fails whenever an `if` option is present and not callable, or a
\* `using` option is present and not an Entity; no rule list holds a rule with a
\* non-callable `if` or a non-Entity `using`.
C6_OptionValidation ==
  /\ (last.op = "expose" /\ C6_FailsOn(last.options)) =>
       /\ ~last.out.ok
       /\ last.out.message.text \in {"\"if\" must be a function!", "\"using\" must be an Entity!"}
  /\ \A id \in Ids : \A i \in 1..Len(entities[id]) :
       /\ "if" \in DOMAIN entities[id][i] => isFunction(entities[id][i]["if"])
       /\ "using" \in DOMAIN entities[id][i] => isEntity(entities[id][i]["using"])

\* The outcome that the declared value v of key `key` is to have on the rule list props.
C7_Entry(props, key, v) ==
  CASE v = Bool(TRUE) -> Return(Append(props, [key |-> Str(key), as |-> Str(key)]))
    [] v = Bool(FALSE) -> Return(props)
    [] isFunction(v) ->
         Return(Append(props, [key |-> Str(key), as |-> Str(key), mode |-> Str("fn"), value |-> v]))
    [] v.k = "object" -> expose(entities, props, Str(key), v)
    [] OTHER -> Throw("TypeError", error("unknown options type for property ", Str(key)))

RECURSIVE C7_Entries(_, _, _)
C7_Entries(props, entries, i) ==
  IF i > Len(entries) THEN Return(props)
  ELSE LET r == C7_Entry(props, entries[i].key, entries[i].opts)
       IN  IF ~r.ok THEN r ELSE C7_Entries(r.v, entries, i + 1)

RECURSIVE C7_Definitions(_, _, _)
C7_Definitions(props, definitions, i) ==
  IF i > Len(definitions) THEN Return(props)
  ELSE LET r == C7_Entries(props, definitions[i], 1)
       IN  IF ~r.ok THEN r ELSE C7_Definitions(r.v, definitions, i + 1)

\* C7: for each key of each declaration mapping given to the constructor, in
\* iteration order: true appends a bare rule {key, as}; false appends nothing; a
\* callable appends a computed rule; an object appends the rule built from its
\* recognized options; any other shape makes construction fail with the error
\* "unknown options type for property <field>".
C7_DeclarationDispatch ==
  last.op = "new" =>
    LET expected == C7_Definitions(<<>>, last.arg, 1)
    IN  IF expected.ok
        THEN last.out.ok /\ entities[last.out.v.e] = expected.v
        ELSE ~last.out.ok /\ last.out.message = expected.message

(***************************************************************************)
(* Properties of represent, read on the last call when it is a call on a   *)
(* single record.  The P_ definitions name what the claims speak of.       *)
(***************************************************************************)
P_RecordCall == last.op = "represent" /\ ~isArray(last.arg)
P_Props == entities[last.id]
P_Options == IF last.options = Undefined THEN EmptyObj ELSE last.options

\* The outcome of the rule list props on the record of the last call.
P_Outcome(props) == Reduce(entities, props, 1, NoKeys, last.arg, P_Options, MaxDepth)
\* The output record after the first i rules.
P_After(i) == P_Outcome(SubSeq(P_Props, 1, i))
\* The rule list with rule i replaced by the rules rs.
P_Replace(i, rs) == SubSeq(P_Props, 1, i - 1) \o rs \o SubSeq(P_Props, i + 1, Len(P_Props))

\* The rule has an `if` predicate.
P_Guarded(rule) == "if" \in DOMAIN rule /\ isFunction(rule["if"])
\* What the rule's predicate returns on the record.
P_Guard(rule) == Call(entities, rule["if"], last.arg, P_Options).v
P_Passes(rule) == P_Guarded(rule) => Truthy(P_Guard(rule))

\* The resolved value: the computed result, the literal, or the input field.
P_Resolved(rule) ==
  IF "value" \in DOMAIN rule /\ isFunction(rule.value)
  THEN Call(entities, rule.value, last.arg, P_Options).v
  ELSE IF "value" \in DOMAIN rule THEN rule.value
  ELSE GetProp(entities, last.arg, PropertyKey(rule.key))

P_HasDefault(rule) == "default" \in DOMAIN rule
P_Skipped(rule) == P_Resolved(rule) = Undefined /\ ~P_HasDefault(rule)
P_Defaulted(rule) == IF P_Resolved(rule) = Undefined THEN rule.default ELSE P_Resolved(rule)

\* The value to place: the defaulted value, projected through `using` when set.
P_Value(rule) ==
  IF "using" \in DOMAIN rule
  THEN represent(entities, rule.using.e, P_Defaulted(rule), P_Options, MaxDepth - 1)
  ELSE Return(P_Defaulted(rule))

P_Merges(rule) == "merge" \in DOMAIN rule /\ Truthy(rule.merge)
\* The rule is applied to the record: its guard passed and its value was not skipped.
P_Applied(rule) == P_Passes(rule) /\ ~P_Skipped(rule)

\* The keys that a merge rule spreads: the own keys of its non-array object value.
P_SpreadKeys(rule) ==
  IF P_Applied(rule) /\ P_Merges(rule) /\ P_Value(rule).ok
     /\ ~isArray(P_Value(rule).v) /\ isObject(P_Value(rule).v)
  THEN DOMAIN OwnProps(entities, P_Value(rule).v)
  ELSE {}

\* C1 as stated: every key of the object returned by represent is the output
\* name (`as`) of a rule whose guard passed and whose value was not skipped.
C1_Whitelist ==
  (P_RecordCall /\ last.out.ok) =>
    DOMAIN last.out.v.o \subseteq
      {PropertyKey(P_Props[i].as) : i \in {j \in 1..Len(P_Props) : P_Applied(P_Props[j])}}

\* C1, amended: every key of the object returned by represent is the output
\* name (`as`) of a rule whose guard passed and whose value was not skipped, or
\* an own key of the non-array object that such a rule with `merge` set spreads
\* into the output.
C1_WhitelistOrSpread ==
  (P_RecordCall /\ last.out.ok) =>
    DOMAIN last.out.v.o \subseteq
      {PropertyKey(P_Props[i].as) : i \in {j \in 1..Len(P_Props) : P_Applied(P_Props[j])}}
        \cup UNION {P_SpreadKeys(P_Props[i]) : i \in 1..Len(P_Props)}

\* A merge rule spread into the output a key that is no rule's output name.
C1_Witness ==
  /\ P_RecordCall /\ last.out.ok
  /\ \E f \in DOMAIN last.out.v.o :
       /\ \A i \in 1..Len(P_Props) : PropertyKey(P_Props[i].as) # f
       /\ \E i \in 1..Len(P_Props) : f \in P_SpreadKeys(P_Props[i])
  /\ \E i \in 1..Len(P_Props) : ~P_Applied(P_Props[i])

\* C2: when the `if` predicate of a rule returns a falsy value, the output is
\* what it is without the rule in the list (whatever default, value, merge or
\* using the rule carries); when it returns a truthy value the rule is applied,
\* as it is without its `if`.
C2_Guard ==
  P_RecordCall =>
    \A i \in 1..Len(P_Props) :
      P_Guarded(P_Props[i]) =>
        IF Truthy(P_Guard(P_Props[i]))
        THEN last.out = P_Outcome(P_Replace(i, <<Without(P_Props[i], "if")>>))
        ELSE last.out = P_Outcome(P_Replace(i, <<>>))

\* A guard returned falsy on a rule that would have placed its default.
C2_Witness ==
  /\ P_RecordCall /\ last.out.ok
  /\ \E i \in 1..Len(P_Props) :
       /\ P_Guarded(P_Props[i]) /\ ~Truthy(P_Guard(P_Props[i]))
       /\ P_HasDefault(P_Props[i])
       /\ P_Outcome(P_Replace(i, <<Without(P_Props[i], "if")>>)) # last.out
  /\ \E i \in 1..Len(P_Props) :
       P_Guarded(P_Props[i]) /\ P_Merges(P_Props[i]) /\ "using" \in DOMAIN P_Props[i]

\* The rule that always yields v, placed as rule does.
C8_Literal(rule, v) ==
  [f \in (DOMAIN rule \ {"default"}) \cup {"mode", "value"} |->
     IF f = "mode" THEN Str("val") ELSE IF f = "value" THEN v ELSE rule[f]]

\* C8: for a rule whose guard passes, when the resolved value is undefined the
\* default is used if one is set, and otherwise the rule adds no key; when the
\* resolved value is defined (null, false, 0 and "" included) the default is not
\* used.
C8_Defaulting ==
  P_RecordCall =>
    \A i \in 1..Len(P_Props) :
      LET rule == P_Props[i]
      IN  (P_After(i - 1).ok /\ P_Passes(rule)) =>
            IF P_Resolved(rule) # Undefined
            THEN P_After(i) = P_Outcome(SubSeq(P_Props, 1, i - 1) \o <<Without(rule, "default")>>)
            ELSE IF P_HasDefault(rule)
            THEN P_After(i) =
                   P_Outcome(SubSeq(P_Props, 1, i - 1) \o <<C8_Literal(rule, rule.default)>>)
            ELSE P_After(i) = P_After(i - 1)

\* One rule took its default for an undefined value, another kept a defined
\* falsy value although it has a default.
C8_Witness ==
  /\ P_RecordCall /\ last.out.ok
  /\ \E i \in 1..Len(P_Props) :
       /\ P_Passes(P_Props[i]) /\ P_HasDefault(P_Props[i])
       /\ P_Resolved(P_Props[i]) = Undefined
       /\ P_After(i) # P_After(i - 1)
  /\ \E i \in 1..Len(P_Props) :
       /\ P_Passes(P_Props[i]) /\ P_HasDefault(P_Props[i])
       /\ P_Resolved(P_Props[i]) # Undefined /\ ~Truthy(P_Resolved(P_Props[i]))

\* Rule i writes the output key f: it is applied and places its value under f
\* (its `as`, or a key it spreads).
P_Writes(i, f) ==
  LET rule == P_Props[i]
  IN  /\ P_Applied(rule)
      /\ P_Value(rule).ok
      /\ IF P_Merges(rule)
         THEN \/ isArray(P_Value(rule).v) /\ PropertyKey(rule.as) = f
              \/ f \in P_SpreadKeys(rule)
         ELSE PropertyKey(rule.as) = f

\* The sequences of the rules from i on that write f, concatenated in rule order.
RECURSIVE C9_Concat(_, _)
C9_Concat(i, f) ==
  IF i > Len(P_Props) THEN <<>>
  ELSE (IF P_Writes(i, f) THEN P_Value(P_Props[i]).v.a ELSE <<>>) \o C9_Concat(i + 1, f)

\* C9: when every rule that writes output key f has `merge` set and resolves to a
\* sequence, the output holds under f the concatenation of those sequences in
\* rule order.
C9_MergeArrays ==
  (P_RecordCall /\ last.out.ok) =>
    \A f \in {PropertyKey(P_Props[i].as) : i \in 1..Len(P_Props)} :
      LET writers == {i \in 1..Len(P_Props) : P_Writes(i, f)}
      IN  (/\ writers # {}
           /\ \A i \in writers : P_Merges(P_Props[i]) /\ isArray(P_Value(P_Props[i]).v))
          => /\ f \in DOMAIN last.out.v.o
             /\ last.out.v.o[f] = Arr(C9_Concat(1, f))

\* Two merge rules wrote different sequences under one key.
C9_Witness ==
  /\ P_RecordCall /\ last.out.ok
  /\ \E f \in DOMAIN last.out.v.o : \E i, j \in 1..Len(P_Props) :
       /\ i < j /\ P_Writes(i, f) /\ P_Writes(j, f)
       /\ \A n \in {i, j} : P_Merges(P_Props[n]) /\ isArray(P_Value(P_Props[n]).v)
       /\ P_Value(P_Props[i]).v # P_Value(P_Props[j]).v
       /\ P_Props[i].key # P_Props[j].key
       /\ Len(last.out.v.o[f].a) = 2

\* Rule i is a merge rule that resolves to a sequence while the output so far
\* holds a non-sequence under the rule's `as`.
C10_Conflict(i) ==
  LET rule == P_Props[i]
      before == P_After(i - 1)
  IN  /\ before.ok
      /\ P_Applied(rule) /\ P_Merges(rule)
      /\ P_Value(rule).ok /\ isArray(P_Value(rule).v)
      /\ PropertyKey(rule.as) \in DOMAIN before.v.o
      /\ ~isArray(before.v.o[PropertyKey(rule.as)])

C11_NestedProjection ==
  P_RecordCall =>
    \A i \in 1..Len(P_Props) :
      LET rule == P_Props[i]
          before == P_After(i - 1)
      IN  (before.ok /\ "using" \in DOMAIN rule /\ isEntity(rule.using) /\ P_Applied(rule)) =>
            LET v == IF P_Resolved(rule) = Undefined THEN rule.default ELSE P_Resolved(rule)
                nested == represent(entities, rule.using.e, v, last.options, MaxDepth - 1)
                placed == Place(entities, before.v.o, Without(rule, "using"), nested.v)
            IN  P_After(i) =
                  IF ~nested.ok THEN nested
                  ELSE IF ~placed.ok THEN placed
                  ELSE Return(Obj(placed.v))

\* A nested projection whose result depends on the options given to the outer
\* call was placed in the output.
C11_Witness ==
  /\ P_RecordCall /\ last.out.ok
  /\ last.options # Undefined
  /\ \E i \in 1..Len(P_Props) :
       LET rule == P_Props[i]
       IN  /\ "using" \in DOMAIN rule /\ isEntity(rule.using) /\ P_Applied(rule)
           /\ P_Value(rule).ok
           /\ P_Value(rule).v # EmptyObj
           /\ P_Value(rule) # represent(entities, rule.using.e, P_Defaulted(rule), EmptyObj, MaxDepth - 1)
           /\ PropertyKey(rule.as) \in DOMAIN last.out.v.o
           /\ last.out.v.o[PropertyKey(rule.as)] = P_Value(rule).v

\* C12: for every entity, entities whose `using` rules refer to themselves
\* included, and every finite record or array, represent runs to completion: it
\* never recurses until the call stack is exhausted.
C12_Termination ==
  last.op = "represent" => last.out # StackOverflow
====
